---- MODULE Spec2Model ----
(***************************************************************************)
(* Retrieval-augmented chat backend: the two POST handlers of the          *)
(* repository.                                                             *)
(*   variant "fallback" : src/unnamed/part_000 (Groq non-streaming, then   *)
(*                        Hugging Face models, re-chunked by streamText)   *)
(*   variant "sse"      : src/unnamed/part_001 (Groq token stream, framed  *)
(*                        piece by piece)                                  *)
(* Texts are sequences of one-character strings.                           *)
(***************************************************************************)
EXTENDS Integers, Sequences, FiniteSets, TLC

VARIABLES variant, HF_TOKEN, GROQ_API_KEY, body, pc, status, respBody,
          contentType, cacheControl, latestMessage, embedding, embedThrew,
          docContext, searchCalls, groqMessages, text, calls, hfIndex,
          frames, controller, closeCount, reads, response, inflight,
          groqResult, sent, fatalErr, partial, ctl

vars == <<variant, HF_TOKEN, GROQ_API_KEY, body, pc, status, respBody,
          contentType, cacheControl, latestMessage, embedding, embedThrew,
          docContext, searchCalls, groqMessages, text, calls, hfIndex,
          frames, controller, closeCount, reads, response, inflight,
          groqResult, sent, fatalErr, partial, ctl>>

(***************************************************************************)
(* Bounds of the model.                                                    *)
(***************************************************************************)
MaxMsgs == 2
MaxTail == 2
MaxVec == 2
MaxReads == 2

(***************************************************************************)
(* Program constants.                                                      *)
(***************************************************************************)
chunkSize == 40

Quote == "\""
Newline == "\n"
Backslash == "\\"

\* the value of a missing property / out-of-range index
UNDEFINED == <<"undefined">>

Falsy(s) == s = UNDEFINED \/ s = <<>>

SeqsUpTo(S, n) == UNION {[1..k -> S] : k \in 0..n}

NonEmptySeqsUpTo(S, n) == UNION {[1..k -> S] : k \in 1..n}

(***************************************************************************)
(* The fixed apology text (part_000 lines 241 and 248).                    *)
(***************************************************************************)
Apology ==
  << "I", " ", "c", "o", "u", "l", "d", "n", "'", "t", " ", "g", "e", "n",
     "e", "r", "a", "t", "e", " ", "a", " ", "r", "e", "s", "p", "o", "n",
     "s", "e", " ", "r", "i", "g", "h", "t", " ", "n", "o", "w", ".", " ",
     "P", "l", "e", "a", "s", "e", " ", "t", "r", "y", " ", "a", "g", "a",
     "i", "n", "." >>

(***************************************************************************)
(* String.prototype.trim on the characters of the model.                   *)
(***************************************************************************)
IsSpace(c) == c \in {" ", Newline}

RECURSIVE TrimStart(_)
TrimStart(s) ==
  IF s # <<>> /\ IsSpace(Head(s)) THEN TrimStart(Tail(s)) ELSE s

RECURSIVE TrimEnd(_)
TrimEnd(s) ==
  IF s # <<>> /\ IsSpace(s[Len(s)]) THEN TrimEnd(SubSeq(s, 1, Len(s) - 1)) ELSE s

Trim(s) == TrimEnd(TrimStart(s))

(***************************************************************************)
(* emit: text.replace(/"/g, '\\"').replace(/\n/g, '\\n') in the envelope   *)
(* 0:"..."\n; nothing is written for empty text.                           *)
(***************************************************************************)
RECURSIVE ReplaceAll(_, _, _)
ReplaceAll(s, from, to) ==
  IF s = <<>> THEN <<>>
  ELSE (IF Head(s) = from THEN to ELSE <<Head(s)>>) \o ReplaceAll(Tail(s), from, to)

Escape_quotesRaw(s) == ReplaceAll(s, Newline, <<Backslash, "n">>)

\* text.replace(/"/g, '\\"').replace(/\n/g, '\\n')
Escape(s) == ReplaceAll(ReplaceAll(s, Quote, <<Backslash, Quote>>), Newline, <<Backslash, "n">>)

Formatted(s) == <<"0", ":", Quote>> \o Escape(s) \o <<Quote, Newline>>

emit(out, t) == IF t = <<>> THEN out ELSE Append(out, Formatted(t))

(***************************************************************************)
(* streamText: slices of chunkSize characters, left to right.              *)
(***************************************************************************)
Min(a, b) == IF a < b THEN a ELSE b

\* a content that is JSON but no string: a non-empty array, a number
ArrayContent == <<"[array]">>

NumberContent == <<"[number]">>

NonStrings == {ArrayContent, NumberContent}

\* text.length; undefined for a number, and i < undefined is false
Length(t) == IF t = NumberContent THEN 0 ELSE Len(t)

RECURSIVE streamLoop(_, _, _)
streamLoop(out, t, i) ==
  IF i < Length(t)
  THEN streamLoop(emit(out, SubSeq(t, i + 1, Min(i + chunkSize, Len(t)))), t, i + chunkSize)
  ELSE out

streamText_whole(out, t) == emit(out, t)

streamText(out, t) == IF t = <<>> THEN out ELSE streamLoop(out, t, 0)

(***************************************************************************)
(* Values the embedding service can answer with.  A response is            *)
(*   kind "array"  : a JS array of items                                    *)
(*   kind "object" : a non-null, non-array object; items are its values     *)
(*                   in iteration order                                     *)
(*   kind "null", "string" : neither of the above                           *)
(*   kind "throw"  : hf.featureExtraction rejects (transport error)         *)
(* An item is a number, a string or a nested array of numbers.             *)
(***************************************************************************)
Nums == {1, 2}

Num(n) == [t |-> "num", n |-> n, a |-> <<>>]

Str == [t |-> "str", n |-> 0, a |-> <<>>]

Arr(a) == [t |-> "arr", n |-> 0, a |-> a]

Vectors == SeqsUpTo({Num(n) : n \in Nums}, MaxVec)

Items == {Num(n) : n \in Nums} \cup {Str} \cup {Arr(v) : v \in Vectors}

Resp(k, items) == [kind |-> k, items |-> items]

NoResponse == Resp("none", <<>>)

EmbeddingResponses ==
  {Resp("array", it) : it \in SeqsUpTo(Items, MaxVec)}
    \cup {Resp("object", v) : v \in Vectors}
    \cup {Resp("null", <<>>), Resp("string", <<>>), Resp("throw", <<>>)}

\* one response of every shape, for the request pipeline
RequestEmbeddingResponses ==
  { Resp("array", <<Num(1), Num(2)>>), Resp("array", <<Arr(<<Num(1), Num(2)>>)>>),
    Resp("object", <<Num(1), Num(2)>>), Resp("array", <<>>),
    Resp("array", <<Arr(<<>>)>>), Resp("array", <<Str>>),
    Resp("null", <<>>), Resp("string", <<>>), Resp("throw", <<>>) }

(***************************************************************************)
(* getHuggingFaceEmbedding: [threw, value].  threw is TRUE when the        *)
(* awaited call rejects: the function has no try/catch of its own.         *)
(***************************************************************************)
getHuggingFaceEmbedding(r) ==
  IF r.kind = "throw" THEN [threw |-> TRUE, value |-> <<>>]
  ELSE IF r.kind = "array" /\ Len(r.items) > 0 /\ r.items[1].t = "num"
    THEN [threw |-> FALSE, value |-> r.items]
  ELSE IF r.kind = "array" /\ Len(r.items) > 0 /\ r.items[1].t = "arr"
    THEN [threw |-> FALSE, value |-> r.items[1].a]
  ELSE IF r.kind \in {"array", "object"}
    THEN [threw |-> FALSE, value |-> r.items]
  ELSE [threw |-> FALSE, value |-> <<>>]

(***************************************************************************)
(* Requests.                                                               *)
(***************************************************************************)
Variants == {"fallback", "sse"}

Roles == {"system", "user", "assistant"}

Contents == {<<>>, <<" ">>, <<"q", " ">>}

Messages == [role : Roles, content : Contents]

\* kind "invalid": req.json() rejects; "absent": no messages property
Bodies ==
  {[kind |-> "invalid", messages |-> <<>>], [kind |-> "absent", messages |-> <<>>]}
    \cup {[kind |-> "array", messages |-> m] : m \in SeqsUpTo(Messages, MaxMsgs)}

Last(s) == s[Len(s)]

\* messages?.[messages.length - 1]?.content?.toString().trim()   (part_000)
\* messages[messages.length - 1]?.content                        (part_001)
LatestMessage(v, b) ==
  IF b.kind = "absent" \/ b.messages = <<>> THEN UNDEFINED
  ELSE IF v = "fallback" THEN Trim(Last(b.messages).content)
  ELSE Last(b.messages).content

(***************************************************************************)
(* Generated texts: short texts over an alphabet with the quote, the       *)
(* newline and the backslash, alone or after a filler that ends one         *)
(* character before the first slice boundary.                              *)
(***************************************************************************)
Alphabet == {"n", Quote, Newline, Backslash}

Filler(k) == [i \in 1..k |-> "x"]

GenTexts ==
  {Filler(k) \o s : k \in {0, chunkSize - 1, chunkSize, 2 * chunkSize},
                    s \in NonEmptySeqsUpTo(Alphabet, MaxTail)}

\* the texts the providers answer with in the request pipeline
Answers ==
  {<<"n">>, <<Backslash, "n">>, Filler(chunkSize - 1) \o <<Quote, Newline>>}

Init ==
  /\ variant \in Variants
  /\ HF_TOKEN \in BOOLEAN
  /\ GROQ_API_KEY \in BOOLEAN
  /\ body \in Bodies
  /\ pc = "received"
  /\ status = 0
  /\ respBody = "none"
  /\ contentType = "none"
  /\ cacheControl = "none"
  /\ latestMessage = UNDEFINED
  /\ embedding = <<>>
  /\ embedThrew = FALSE
  /\ docContext = <<>>
  /\ searchCalls = 0
  /\ groqMessages = <<>>
  /\ text = <<>>
  /\ calls = <<>>
  /\ hfIndex = 0
  /\ frames = <<>>
  /\ controller = "none"
  /\ closeCount = 0
  /\ reads = 0
  /\ response = NoResponse
  /\ inflight = {}
  /\ groqResult = "none"
  /\ sent = <<>>
  /\ fatalErr = FALSE
  /\ partial = FALSE
  /\ ctl = <<>>

\* new Response(JSON.stringify({ error }), { status, headers: application/json })
ErrorResponse(code, message) ==
  /\ status' = code
  /\ respBody' = message
  /\ contentType' = "application/json"
  /\ cacheControl' = "none"
  /\ pc' = "done"

(***************************************************************************)
(* POST, up to the first await after the body is read.                     *)
(***************************************************************************)
Receive ==
  /\ pc = "received"
  /\ IF body.kind = "invalid" \/ (variant = "sse" /\ body.kind = "absent")
     THEN /\ ErrorResponse(500, "Internal server error")
          /\ UNCHANGED latestMessage
     ELSE LET latest == LatestMessage(variant, body) IN
          IF variant = "fallback" /\ Falsy(latest)
          THEN /\ ErrorResponse(400, "No user message provided.")
               /\ UNCHANGED latestMessage
          ELSE /\ latestMessage' = latest
               /\ pc' = "embedding"
               /\ UNCHANGED <<status, respBody, contentType, cacheControl>>
  /\ UNCHANGED <<variant, HF_TOKEN, GROQ_API_KEY, body, embedding, embedThrew,
                 docContext, searchCalls, groqMessages, text, calls, hfIndex,
                 frames, controller, closeCount, reads, response,
                 inflight, groqResult, sent,
                 fatalErr, partial, ctl>>

(***************************************************************************)
(* await getHuggingFaceEmbedding(latestMessage).  part_000 wraps the call  *)
(* in try/catch (lines 156-161); in part_001 (line 57) a rejection reaches *)
(* the outer catch.                                                        *)
(***************************************************************************)
EmbedWith(r) ==
  /\ pc = "embedding"
  /\ LET res == getHuggingFaceEmbedding(r) IN
     /\ embedThrew' = res.threw
     /\ IF res.threw /\ variant = "sse"
        THEN /\ ErrorResponse(500, "Internal server error")
             /\ UNCHANGED embedding
        ELSE /\ embedding' = (IF res.threw THEN <<>> ELSE res.value)
             /\ pc' = "retrieving"
             /\ UNCHANGED <<status, respBody, contentType, cacheControl>>
  /\ UNCHANGED <<variant, HF_TOKEN, GROQ_API_KEY, body, latestMessage,
                 docContext, searchCalls, groqMessages, text, calls, hfIndex,
                 frames, controller, closeCount, reads, response,
                 inflight, groqResult, sent,
                 fatalErr, partial, ctl>>

Embed == \E r \in RequestEmbeddingResponses : EmbedWith(r)

(***************************************************************************)
(* The vector-store query.  Outcomes: db.collection rejects, the find /    *)
(* toArray rejects, or the documents' texts come back.                     *)
(***************************************************************************)
Docs == {<<>>, <<"d1", "d2">>}

SearchOutcomes ==
  {[kind |-> "collectionFail", docs |-> <<>>], [kind |-> "queryFail", docs |-> <<>>]}
    \cup {[kind |-> "ok", docs |-> d] : d \in Docs}

\* JSON.stringify(docsMap)
Stringify(docs) == <<"[">> \o docs \o <<"]">>

\* embedding?.length guards the query in part_000 only
QueriesStore(v, e) == IF v = "fallback" THEN Len(e) > 0 ELSE TRUE

Retrieve ==
  /\ pc = "retrieving"
  /\ IF QueriesStore(variant, embedding)
     THEN \E o \in SearchOutcomes :
            /\ searchCalls' = (IF o.kind = "collectionFail" THEN searchCalls
                               ELSE searchCalls + 1)
            /\ docContext' = (IF o.kind = "ok" THEN Stringify(o.docs) ELSE <<>>)
     ELSE UNCHANGED <<searchCalls, docContext>>
  /\ pc' = "assembling"
  /\ UNCHANGED <<variant, HF_TOKEN, GROQ_API_KEY, body, status, respBody,
                 contentType, cacheControl, latestMessage, embedding, embedThrew,
                 groqMessages, text, calls, hfIndex, frames, controller,
                 closeCount, reads, response,
                 inflight, groqResult, sent,
                 fatalErr, partial, ctl>>

(***************************************************************************)
(* Prompt assembly: the synthesized system message, then the conversation. *)
(***************************************************************************)
systemPrompt(context, question) ==
  <<"INSTRUCTION", "START CONTEXT">> \o context \o <<"END CONTEXT", "QUESTION">> \o question

AssembleMessages(context, question, messages) ==
  <<[role |-> "system", content |-> systemPrompt(context, question)]>>
    \o [i \in 1..Len(messages) |->
          [role |-> messages[i].role, content |-> messages[i].content]]

\* the credential gate of part_000 lines 204-209
CredentialGate(hfToken, groqKey) == ~hfToken

\* headers of the streaming Response
StreamContentType(v) ==
  IF v = "fallback" THEN "text/plain; charset=utf-8" ELSE "text/x-unknown; charset=utf-8"

StreamResponse ==
  /\ status' = 200
  /\ respBody' = "stream"
  /\ contentType' = StreamContentType(variant)
  /\ cacheControl' = "no-cache"

Assemble ==
  /\ pc = "assembling"
  /\ groqMessages' = AssembleMessages(docContext, latestMessage, body.messages)
  /\ IF variant = "fallback"
     THEN IF CredentialGate(HF_TOKEN, GROQ_API_KEY)
          THEN /\ ErrorResponse(400, "Missing HF_TOKEN in environment.")
               /\ UNCHANGED controller
          ELSE /\ StreamResponse
               /\ controller' = "open"
               /\ pc' = "tier1"
     ELSE /\ pc' = "fetching"
          /\ UNCHANGED <<status, respBody, contentType, cacheControl, controller>>
  /\ UNCHANGED <<variant, HF_TOKEN, GROQ_API_KEY, body, latestMessage, embedding,
                 embedThrew, docContext, searchCalls, text, calls, hfIndex,
                 frames, closeCount, reads, response,
                 inflight, groqResult, sent,
                 fatalErr, partial, ctl>>

(***************************************************************************)
(* Tier 1 of part_000: generateWithGroq, called when the key is present.   *)
(***************************************************************************)
GroqOutcomes ==
  {[kind |-> k, text |-> <<>>] : k \in {"throw", "notOk", "badJson", "noContent"}}
    \cup {[kind |-> "content", text |-> t] : t \in Answers \cup NonStrings \cup {<<>>}}

\* json?.choices?.[0]?.message?.content ?? '', '' on every failure
generateWithGroq(o) == IF o.kind = "content" THEN o.text ELSE <<>>

\* one entry of the log of provider calls: the model and whether the call
\* gave non-empty text
Call(m, t) == [model |-> m, got |-> t # <<>>]

\* Tier 2 entered whatever Tier 1 returned
Tier2Wanted_always(t, hfToken) == hfToken

\* if (!text && HF_TOKEN)
Tier2Wanted(t, hfToken) == t = <<>> /\ hfToken

\* a provider call is in flight from its start until its promise settles
Started(fl, m) == fl \cup {m}

\* the handler goes on without the call having settled
Settled_notAwaited(fl, m) == fl

\* await: the handler resumes when the call has settled
Settled(fl, m) == fl \ {m}

\* start(): let text = ''; the Groq call starts when the key is present
Tier1Start ==
  /\ pc = "tier1"
  /\ IF GROQ_API_KEY
     THEN /\ inflight' = Started(inflight, "groq")
          /\ pc' = "groq"
          /\ UNCHANGED <<text, hfIndex, groqResult>>
     ELSE /\ text' = <<>>
          /\ groqResult' = "absent"
          /\ IF Tier2Wanted(text', HF_TOKEN)
             THEN pc' = "textgen" /\ hfIndex' = 1
             ELSE pc' = "framing" /\ UNCHANGED hfIndex
          /\ UNCHANGED inflight
  /\ UNCHANGED <<variant, HF_TOKEN, GROQ_API_KEY, body, status, respBody,
                 contentType, cacheControl, latestMessage, embedding, embedThrew,
                 docContext, searchCalls, groqMessages, calls, frames, controller,
                 closeCount, reads, response, sent,
                 fatalErr, partial, ctl>>

\* generateWithGroq settles
Tier1 ==
  /\ pc = "groq"
  /\ \E o \in GroqOutcomes :
       /\ text' = generateWithGroq(o)
       /\ calls' = Append(calls, Call("groq", generateWithGroq(o)))
       /\ groqResult' = o.kind
  /\ inflight' = Settled(inflight, "groq")
  /\ IF Tier2Wanted(text', HF_TOKEN)
     THEN pc' = "textgen" /\ hfIndex' = 1
     ELSE pc' = "framing" /\ UNCHANGED hfIndex
  /\ UNCHANGED <<variant, HF_TOKEN, GROQ_API_KEY, body, status, respBody,
                 contentType, cacheControl, latestMessage, embedding, embedThrew,
                 docContext, searchCalls, groqMessages, frames, controller,
                 closeCount, reads, response, sent,
                 fatalErr, partial, ctl>>

(***************************************************************************)
(* Tier 2 of part_000: generateWithHF, one model call per step.            *)
(***************************************************************************)
textGenModels == <<"bigscience/bloom-560m", "gpt2", "distilgpt2">>

t5Models == <<"google/flan-t5-base", "google/flan-t5-small">>

\* a call throws, or resolves to a string, to { generated_text }, to
\* [{ generated_text }] or to something without generated_text
HFOutcomes ==
  {[kind |-> k, text |-> <<>>] : k \in {"throw", "other"}}
    \cup {[kind |-> k, text |-> t] : k \in {"string", "object", "array"},
                                     t \in Answers \cup {<<>>}}

HFText(o) == IF o.kind \in {"string", "object", "array"} THEN o.text ELSE <<>>

\* the rest of a family given up after its first model
NextModel_giveUp(i, n) == 0

\* the model tried after model i of a family of n models; 0: none left
NextModel(i, n) == IF i < n THEN i + 1 ELSE 0

\* hf.textGeneration is called for the next model of the first family
TextGenStart ==
  /\ pc = "textgen"
  /\ inflight' = Started(inflight, textGenModels[hfIndex])
  /\ pc' = "textgenWait"
  /\ UNCHANGED <<variant, HF_TOKEN, GROQ_API_KEY, body, status, respBody,
                 contentType, cacheControl, latestMessage, embedding, embedThrew,
                 docContext, searchCalls, groqMessages, text, calls, hfIndex,
                 frames, controller, closeCount, reads, response, groqResult, sent,
                 fatalErr, partial, ctl>>

TextGen ==
  /\ pc = "textgenWait"
  /\ inflight' = Settled(inflight, textGenModels[hfIndex])
  /\ \E o \in HFOutcomes :
       LET t == HFText(o) IN
       /\ calls' = Append(calls, Call(textGenModels[hfIndex], t))
       /\ text' = t
       /\ IF t # <<>>
          THEN pc' = "framing" /\ UNCHANGED hfIndex
          ELSE IF NextModel(hfIndex, Len(textGenModels)) # 0
               THEN /\ hfIndex' = NextModel(hfIndex, Len(textGenModels))
                    /\ pc' = "textgen"
               ELSE pc' = "t5" /\ hfIndex' = 1
  /\ UNCHANGED <<variant, HF_TOKEN, GROQ_API_KEY, body, status, respBody,
                 contentType, cacheControl, latestMessage, embedding, embedThrew,
                 docContext, searchCalls, groqMessages, frames, controller,
                 closeCount, reads, response, groqResult, sent,
                 fatalErr, partial, ctl>>

\* hf.textToText is called for the next model of the second family
T5Start ==
  /\ pc = "t5"
  /\ inflight' = Started(inflight, t5Models[hfIndex])
  /\ pc' = "t5Wait"
  /\ UNCHANGED <<variant, HF_TOKEN, GROQ_API_KEY, body, status, respBody,
                 contentType, cacheControl, latestMessage, embedding, embedThrew,
                 docContext, searchCalls, groqMessages, text, calls, hfIndex,
                 frames, controller, closeCount, reads, response, groqResult, sent,
                 fatalErr, partial, ctl>>

T5 ==
  /\ pc = "t5Wait"
  /\ inflight' = Settled(inflight, t5Models[hfIndex])
  /\ \E o \in HFOutcomes :
       LET t == HFText(o) IN
       /\ calls' = Append(calls, Call(t5Models[hfIndex], t))
       /\ text' = t
       /\ IF t # <<>>
          THEN pc' = "framing" /\ UNCHANGED hfIndex
          ELSE IF NextModel(hfIndex, Len(t5Models)) # 0
               THEN /\ hfIndex' = NextModel(hfIndex, Len(t5Models))
                    /\ pc' = "t5"
               ELSE pc' = "framing" /\ UNCHANGED hfIndex
  /\ UNCHANGED <<variant, HF_TOKEN, GROQ_API_KEY, body, status, respBody,
                 contentType, cacheControl, latestMessage, embedding, embedThrew,
                 docContext, searchCalls, groqMessages, frames, controller,
                 closeCount, reads, response, groqResult, sent,
                 fatalErr, partial, ctl>>

(***************************************************************************)
(* part_000 lines 240-245: the apology or the re-chunked text, then close. *)
(***************************************************************************)
\* the apology forgotten
FramesFor_silent(out, t) == streamText(out, t)

\* emit throws on a text without replace(): a slice of an array
StreamThrows(t) == t = ArrayContent

\* the try block of start(), and its catch when the first emit throws
FramesFor(out, t) ==
  IF t = <<>> \/ StreamThrows(t) THEN emit(out, Apology) ELSE streamText(out, t)

\* n calls of controller.enqueue
Enqueues(n) == [i \in 1..n |-> "enqueue"]

Frame ==
  /\ pc = "framing"
  /\ frames' = FramesFor(frames, text)
  /\ fatalErr' = StreamThrows(text)
  /\ controller' = "closed"
  /\ closeCount' = closeCount + 1
  /\ ctl' = ctl \o Enqueues(Len(frames') - Len(frames)) \o <<"close">>
  /\ pc' = "done"
  /\ UNCHANGED <<variant, HF_TOKEN, GROQ_API_KEY, body, status, respBody,
                 contentType, cacheControl, latestMessage, embedding, embedThrew,
                 docContext, searchCalls, groqMessages, text, calls, hfIndex,
                 reads, response, inflight, groqResult, sent, partial>>

(***************************************************************************)
(* part_001 lines 95-123: the streaming chat-completion request.  With no  *)
(* key the request carries "Bearer undefined" and is refused.              *)
(***************************************************************************)
FetchOutcomes(groqKey) ==
  IF groqKey THEN {"throw", "notOk", "noBody", "ok"} ELSE {"throw", "notOk"}

Fetch ==
  /\ pc = "fetching"
  /\ \E o \in FetchOutcomes(GROQ_API_KEY) :
       /\ calls' = Append(calls, [model |-> "groq", got |-> o = "ok"])
       /\ groqResult' = o
       /\ IF o \in {"throw", "notOk"}
          THEN /\ ErrorResponse(500, "Internal server error")
               /\ UNCHANGED <<controller, closeCount, ctl>>
          ELSE /\ StreamResponse
               /\ IF o = "noBody"
                  THEN /\ controller' = "closed"
                       /\ closeCount' = closeCount + 1
                       /\ ctl' = Append(ctl, "close")
                       /\ pc' = "done"
                  ELSE /\ controller' = "open"
                       /\ pc' = "reading"
                       /\ UNCHANGED <<closeCount, ctl>>
  /\ UNCHANGED <<variant, HF_TOKEN, GROQ_API_KEY, body, latestMessage, embedding,
                 embedThrew, docContext, searchCalls, groqMessages, text, hfIndex,
                 frames, reads, response, inflight, sent,
                 fatalErr, partial>>

(***************************************************************************)
(* part_001 lines 128-164: the read loop.  A line of a decoded chunk is    *)
(*   "data"  : data: <json> whose delta content is the line's content       *)
(*             (empty: no content)                                          *)
(*   "done"  : data: [DONE]                                                 *)
(*   "head"  : the beginning of a data line cut by the chunk boundary; its  *)
(*             content is the delta the whole line carries                  *)
(*   "tail"  : the rest of such a line                                      *)
(*   "blank" : an empty line                                                *)
(***************************************************************************)
Deltas == {<<"n">>, <<Quote, Newline>>}

Line(k, c) == [kind |-> k, content |-> c]

Bursts ==
  { <<Line("data", <<"n">>), Line("blank", <<>>)>>,
    <<Line("data", <<Quote, Newline>>), Line("data", <<>>)>>,
    <<Line("data", <<"n">>), Line("done", <<>>), Line("data", <<"n">>)>>,
    <<Line("head", <<"n">>)>>,
    <<Line("tail", <<>>), Line("data", <<"n">>)>>,
    <<Line("tail", <<>>), Line("done", <<>>)>>,
    <<Line("done", <<>>)>> }

formattedChunk(content) == <<"0", ":", Quote>> \o Escape(content) \o <<Quote, Newline>>

\* line.startsWith('data: ')
StartsWithData(l) == l.kind \in {"data", "done", "head"}

\* the loop going on with the lines that follow the [DONE] marker
RECURSIVE ProcessLines_noReturn(_, _)
ProcessLines_noReturn(out, lines) ==
  IF lines = <<>> THEN [frames |-> out, closed |-> FALSE, log |-> <<>>]
  ELSE LET l == Head(lines) IN
       IF ~StartsWithData(l) THEN ProcessLines_noReturn(out, Tail(lines))
       ELSE IF l.kind = "done"
         THEN LET r == ProcessLines_noReturn(out, Tail(lines)) IN
              [r EXCEPT !.closed = TRUE, !.log = <<"close">> \o @]
       ELSE IF l.kind = "data" /\ l.content # <<>>
         THEN LET r == ProcessLines_noReturn(Append(out, formattedChunk(l.content)),
                                             Tail(lines)) IN
              [r EXCEPT !.log = <<"enqueue">> \o @]
       ELSE ProcessLines_noReturn(out, Tail(lines))

\* the for loop over the lines of one chunk: [frames, closed, log], log being
\* the calls made on the controller, in order
RECURSIVE ProcessLines(_, _)
ProcessLines(out, lines) ==
  IF lines = <<>> THEN [frames |-> out, closed |-> FALSE, log |-> <<>>]
  ELSE LET l == Head(lines) IN
       IF ~StartsWithData(l) THEN ProcessLines(out, Tail(lines))
       ELSE IF l.kind = "done"
         THEN [frames |-> out, closed |-> TRUE, log |-> <<"close">>]
       ELSE IF l.kind = "data" /\ l.content # <<>>
         THEN LET r == ProcessLines(Append(out, formattedChunk(l.content)),
                                    Tail(lines)) IN
              [r EXCEPT !.log = <<"enqueue">> \o @]
       ELSE ProcessLines(out, Tail(lines))

\* the delta contents the upstream sends in the lines of a chunk, up to the
\* [DONE] marker
RECURSIVE DeltasOf(_)
DeltasOf(lines) ==
  IF lines = <<>> \/ Head(lines).kind = "done" THEN <<>>
  ELSE (IF Head(lines).kind \in {"data", "head"} THEN Head(lines).content ELSE <<>>)
         \o DeltasOf(Tail(lines))

\* the chunk ends inside a data line
EndsCut(lines) == lines # <<>> /\ lines[Len(lines)].kind = "head"

\* the chunk begins with the rest of the line the previous chunk cut
BeginsCut(lines) == lines # <<>> /\ lines[1].kind = "tail"

Read ==
  /\ pc = "reading"
  /\ \/ /\ reads < MaxReads
        /\ \E chunk \in Bursts :
             LET r == ProcessLines(frames, chunk) IN
             /\ partial <=> BeginsCut(chunk)
             /\ partial' = EndsCut(chunk)
             /\ frames' = r.frames
             /\ ctl' = ctl \o r.log
             /\ sent' = sent \o DeltasOf(chunk)
             /\ UNCHANGED fatalErr
             /\ reads' = reads + 1
             /\ IF r.closed
                THEN /\ controller' = "closed"
                     /\ closeCount' = closeCount + 1
                     /\ pc' = "done"
                ELSE UNCHANGED <<controller, closeCount, pc>>
     \/ /\ pc' = "done"
        /\ UNCHANGED <<frames, reads, controller, closeCount, sent, fatalErr,
                       partial, ctl>>
     \/ /\ controller' = "errored"
        /\ ctl' = Append(ctl, "error")
        /\ fatalErr' = TRUE
        /\ pc' = "done"
        /\ UNCHANGED <<frames, reads, closeCount, sent, partial>>
  /\ UNCHANGED <<variant, HF_TOKEN, GROQ_API_KEY, body, status, respBody,
                 contentType, cacheControl, latestMessage, embedding, embedThrew,
                 docContext, searchCalls, groqMessages, text, calls, hfIndex,
                 response, inflight, groqResult>>

Next ==
  \/ Receive
  \/ Embed
  \/ Retrieve
  \/ Assemble
  \/ Tier1Start
  \/ Tier1
  \/ TextGenStart
  \/ TextGen
  \/ T5Start
  \/ T5
  \/ Frame
  \/ Fetch
  \/ Read

Spec == Init /\ [][Next]_vars

(***************************************************************************)
(* The Embedding Client alone, on every response of the bounded set: an    *)
(* accepted request that is about to embed its question.                   *)
(***************************************************************************)
Question == <<[role |-> "user", content |-> <<"q", " ">>]>>

InitEmbed ==
  /\ variant \in Variants
  /\ HF_TOKEN = TRUE
  /\ GROQ_API_KEY = TRUE
  /\ body = [kind |-> "array", messages |-> Question]
  /\ pc = "embedding"
  /\ status = 0
  /\ respBody = "none"
  /\ contentType = "none"
  /\ cacheControl = "none"
  /\ latestMessage = LatestMessage(variant, body)
  /\ embedding = <<>>
  /\ embedThrew = FALSE
  /\ docContext = <<>>
  /\ searchCalls = 0
  /\ groqMessages = <<>>
  /\ text = <<>>
  /\ calls = <<>>
  /\ hfIndex = 0
  /\ frames = <<>>
  /\ controller = "none"
  /\ closeCount = 0
  /\ reads = 0
  /\ response \in EmbeddingResponses
  /\ inflight = {}
  /\ groqResult = "none"
  /\ sent = <<>>
  /\ fatalErr = FALSE
  /\ partial = FALSE
  /\ ctl = <<>>

EmbedGiven == EmbedWith(response)

NextEmbed ==
  \/ EmbedGiven

SpecEmbed == InitEmbed /\ [][NextEmbed]_vars

(***************************************************************************)
(* The Stream Framer alone, on every text of the bounded set: a request of *)
(* part_000 whose Tier 1 call has just returned the text.                  *)
(***************************************************************************)
InitFrame ==
  /\ variant = "fallback"
  /\ HF_TOKEN = TRUE
  /\ GROQ_API_KEY = TRUE
  /\ body = [kind |-> "array", messages |-> Question]
  /\ pc = "framing"
  /\ status = 200
  /\ respBody = "stream"
  /\ contentType = StreamContentType(variant)
  /\ cacheControl = "no-cache"
  /\ latestMessage = LatestMessage(variant, body)
  /\ embedding = <<>>
  /\ embedThrew = FALSE
  /\ docContext = <<>>
  /\ searchCalls = 0
  /\ groqMessages = AssembleMessages(docContext, latestMessage, body.messages)
  /\ text \in GenTexts
  /\ calls = <<Call("groq", text)>>
  /\ hfIndex = 0
  /\ frames = <<>>
  /\ controller = "open"
  /\ closeCount = 0
  /\ reads = 0
  /\ response = NoResponse
  /\ inflight = {}
  /\ groqResult = "content"
  /\ sent = <<>>
  /\ fatalErr = FALSE
  /\ partial = FALSE
  /\ ctl = <<>>

NextFrame ==
  \/ Frame

SpecFrame == InitFrame /\ [][NextFrame]_vars

(***************************************************************************)
(* The generation phase alone: the start routine of part_000's stream from *)
(* its first statement up to framing, for a request that passed the        *)
(* credential gate.                                                        *)
(* Each provider call returns or throws, and the routine runs on: every    *)
(* step that is enabled is eventually taken.                               *)
(***************************************************************************)
InitGen ==
  /\ variant = "fallback"
  /\ HF_TOKEN = TRUE
  /\ GROQ_API_KEY \in BOOLEAN
  /\ body \in {b \in Bodies : b.kind = "array" /\ ~Falsy(LatestMessage(variant, b))}
  /\ pc = "tier1"
  /\ status = 200
  /\ respBody = "stream"
  /\ contentType = StreamContentType(variant)
  /\ cacheControl = "no-cache"
  /\ latestMessage = LatestMessage(variant, body)
  /\ embedding = <<>>
  /\ embedThrew = FALSE
  /\ docContext = <<>>
  /\ searchCalls = 0
  /\ groqMessages = AssembleMessages(docContext, latestMessage, body.messages)
  /\ text = <<>>
  /\ calls = <<>>
  /\ hfIndex = 0
  /\ frames = <<>>
  /\ controller = "open"
  /\ closeCount = 0
  /\ reads = 0
  /\ response = NoResponse
  /\ inflight = {}
  /\ groqResult = "none"
  /\ sent = <<>>
  /\ fatalErr = FALSE
  /\ partial = FALSE
  /\ ctl = <<>>

NextGen ==
  \/ Tier1Start
  \/ Tier1
  \/ TextGenStart
  \/ TextGen
  \/ T5Start
  \/ T5

SpecGen == InitGen /\ [][NextGen]_vars /\ WF_vars(NextGen)

(***************************************************************************)
(* What a client reads back from the frames: the payload between the       *)
(* envelope 0:" and "\n, with \" read as the quote and \n as the newline.  *)
(***************************************************************************)
Payload(frame) == SubSeq(frame, 4, Len(frame) - 2)

RECURSIVE Unescape(_)
Unescape(s) ==
  IF s = <<>> THEN <<>>
  ELSE IF Len(s) >= 2 /\ s[1] = Backslash /\ s[2] = Quote
    THEN <<Quote>> \o Unescape(SubSeq(s, 3, Len(s)))
  ELSE IF Len(s) >= 2 /\ s[1] = Backslash /\ s[2] = "n"
    THEN <<Newline>> \o Unescape(SubSeq(s, 3, Len(s)))
  ELSE <<Head(s)>> \o Unescape(Tail(s))

RECURSIVE Reconstruct(_)
Reconstruct(frs) ==
  IF frs = <<>> THEN <<>>
  ELSE Unescape(Payload(Head(frs))) \o Reconstruct(Tail(frs))

\* the request carries no question: messages absent or empty, or the last
\* message's content empty after trimming
EmptyQuestion(b) ==
  b.kind = "absent" \/ (b.kind = "array" /\ (b.messages = <<>> \/ Trim(Last(b.messages).content) = <<>>))

Tier2Models == textGenModels \o t5Models

\* the five Tier 2 models were called, in order, and none gave text
Tier2Exhausted ==
  /\ Len(calls) = Len(Tier2Models)
  /\ \A i \in 1..Len(calls) : calls[i].model = Tier2Models[i] /\ ~calls[i].got

(***************************************************************************)
(* C1: a request with no question (messages absent or empty, or the last   *)
(* message's trimmed content empty) is answered 400 with the body          *)
(* "No user message provided.", and never with a 200 stream.               *)
(***************************************************************************)
C1_EmptyQuestionRejected ==
  EmptyQuestion(body)
    => /\ status # 200
       /\ pc = "done" => (status = 400 /\ respBody = "No user message provided.")

(***************************************************************************)
(* C2: round-trip law: the unescaped payloads of the emitted frames,       *)
(* concatenated in emission order, are exactly the generated text.         *)
(***************************************************************************)
C2_RoundTrip ==
  (pc = "done" /\ variant = "fallback" /\ text # <<>>) => Reconstruct(frames) = text

(***************************************************************************)
(* C3: with no Groq credential and every Tier 2 model failing or empty,    *)
(* the response is a 200 whose frames reconstruct to the apology, and the  *)
(* stream is closed.                                                       *)
(***************************************************************************)
C3_TotalFailureApology ==
  (~GROQ_API_KEY /\ pc = "done" /\ Tier2Exhausted)
    => (status = 200 /\ Reconstruct(frames) = Apology /\ controller = "closed")

C3_Witness ==
  /\ ~GROQ_API_KEY /\ pc = "done" /\ Tier2Exhausted
  /\ frames = <<Formatted(Apology)>>

(***************************************************************************)
(* C4: Groq is called at most once; the Tier 2 calls are the declared      *)
(* models in the declared order, each at most once; and no call follows a  *)
(* call that gave non-empty text.                                          *)
(***************************************************************************)
C4_TierOrder ==
  LET hfCalls == SelectSeq(calls, LAMBDA c : c.model # "groq") IN
  /\ Cardinality({i \in DOMAIN calls : calls[i].model = "groq"}) <= 1
  /\ Len(hfCalls) <= Len(Tier2Models)
  /\ \A i \in 1..Len(hfCalls) : hfCalls[i].model = Tier2Models[i]
  /\ \A i \in 1..(Len(calls) - 1) : ~calls[i].got

C4_Witness ==
  /\ Len(calls) = 1 + Len(Tier2Models)
  /\ calls[1].model = "groq"
  /\ calls[Len(calls)].model = "google/flan-t5-small"
  /\ calls[Len(calls)].got

(***************************************************************************)
(* C5: when the embedding step yields the empty vector, no similarity      *)
(* search is made and the context is empty.                                *)
(***************************************************************************)
C5_EmptyEmbeddingSkipsSearch ==
  (pc \notin {"received", "embedding"} /\ embedding = <<>>)
    => (searchCalls = 0 /\ docContext = <<>>)

(***************************************************************************)
(* C6: the Embedding Client returns a flat numeric sequence as it is, the  *)
(* first element of a batch, the values of a keyed mapping, and the empty  *)
(* vector for every other shape and for a transport error; no exception    *)
(* escapes it.                                                             *)
(***************************************************************************)
FirstIs(r, t) == r.kind = "array" /\ r.items # <<>> /\ r.items[1].t = t

ExpectedVector(r) ==
  IF FirstIs(r, "num") THEN r.items
  ELSE IF FirstIs(r, "arr") THEN r.items[1].a
  ELSE IF r.kind = "object" THEN r.items
  ELSE <<>>

C6_EmbeddingClientTotal ==
  (pc # "embedding" /\ response # NoResponse)
    => (embedding = ExpectedVector(response) /\ status # 500)

(***************************************************************************)
(* C7: no hung connection: once the handler and the stream's start routine *)
(* have finished, a 200 stream is closed.                                  *)
(***************************************************************************)
C7_StreamClosedAtEnd ==
  (pc = "done" /\ status = 200) => controller = "closed"

(***************************************************************************)
(* C8: every 200 response has Content-Type text/plain; charset=utf-8 and   *)
(* Cache-Control no-cache.                                                 *)
(***************************************************************************)
C8_SuccessHeaders ==
  status = 200
    => (contentType = "text/plain; charset=utf-8" /\ cacheControl = "no-cache")

(***************************************************************************)
(* C9: a request ends 400 for a missing credential only when no generation *)
(* provider is available: with HF_TOKEN absent and GROQ_API_KEY present    *)
(* the request degrades to Groq and answers 200.                           *)
(***************************************************************************)
C9_CredentialDegrades ==
  (variant = "fallback" /\ pc = "done" /\ ~EmptyQuestion(body)
     /\ body.kind = "array" /\ ~HF_TOKEN /\ GROQ_API_KEY)
    => status = 200

(***************************************************************************)
(* C10: the assembled prompt has exactly one message of role system, and   *)
(* it is the first.                                                        *)
(***************************************************************************)
C10_OneSystemMessageFirst ==
  groqMessages # <<>>
    => /\ groqMessages[1].role = "system"
       /\ Cardinality({i \in DOMAIN groqMessages : groqMessages[i].role = "system"}) = 1

(***************************************************************************)
(* C11: a request body that does not parse as JSON is an input error: the  *)
(* handler answers 400 with a JSON error body, not 500.                    *)
(***************************************************************************)
C11_MalformedBodyIs400 ==
  (body.kind = "invalid" /\ pc = "done")
    => (status = 400 /\ contentType = "application/json")

\* the Tier 1 call failed: no credential, a transport error, a non-2xx
\* status or a body without the expected content
Tier1Failed == groqResult \in {"absent", "throw", "notOk", "badJson", "noContent"}

Tier2Attempted == \E i \in DOMAIN calls : calls[i].model = Tier2Models[1]

(***************************************************************************)
(* C12: a failed Tier 1 call yields empty text, is not surfaced as an      *)
(* error response, and Tier 2 is then attempted in the same request.       *)
(***************************************************************************)
C12_Tier1FailureFallsToTier2 ==
  (Tier1Failed /\ pc = "done")
    => /\ \A i \in DOMAIN calls : calls[i].model = "groq" => ~calls[i].got
       /\ status = 200
       /\ Tier2Attempted

(***************************************************************************)
(* C13: provider calls are strictly sequential: at most one call is in     *)
(* flight at any time (so no Tier 2 call starts while Tier 1 is in flight  *)
(* and no two Tier 2 calls overlap), and once the Tier 1 call has returned *)
(* non-empty text no Tier 2 call is started or made.                       *)
(***************************************************************************)
C13_StrictlySequential ==
  /\ Cardinality(inflight) <= 1
  /\ (calls # <<>> /\ calls[1].model = "groq" /\ calls[1].got)
       => (Len(calls) = 1 /\ inflight = {})

C13_Witness ==
  /\ inflight = {"gpt2"}
  /\ Len(calls) = 2
  /\ calls[1].model = "groq"
  /\ calls[2].model = "bigscience/bloom-560m"

\* the request passed input validation
Accepted(b) == b.kind = "array" /\ ~EmptyQuestion(b)

(***************************************************************************)
(* C14: for a request that passed input validation, with both credentials  *)
(* present, no failure of the embedding call, the vector-store query, the  *)
(* Tier 1 call or a Tier 2 model call ends the request with a 4xx or 5xx:  *)
(* a failed embedding is replaced by the empty vector and the request      *)
(* ends with a 200 stream.                                                 *)
(***************************************************************************)
C14_FailuresDegrade ==
  (Accepted(body) /\ HF_TOKEN /\ GROQ_API_KEY)
    => /\ embedThrew => embedding = <<>>
       /\ status \in {0, 200}
       /\ pc = "done" => status = 200

(***************************************************************************)
(* C15: an exception raised while the output stream is open ends with      *)
(* the apology frame written and the stream closed; the stream is never    *)
(* put into the errored state and never left open.                         *)
(***************************************************************************)
C15_FatalErrorClosesStream ==
  /\ controller # "errored"
  /\ (fatalErr /\ pc = "done")
       => /\ controller = "closed"
          /\ frames # <<>>
          /\ Last(frames) = Formatted(Apology)

(***************************************************************************)
(* C16: in the token-stream path, whatever the split of the upstream body  *)
(* into read chunks, once the stream was closed on the [DONE] marker the   *)
(* unescaped frame payloads, concatenated, are the upstream's delta        *)
(* contents, concatenated: each delta is framed once, in upstream order.   *)
(***************************************************************************)
C16_EveryDeltaFramedOnce ==
  (variant = "sse" /\ pc = "done" /\ controller = "closed")
    => Reconstruct(frames) = sent

(***************************************************************************)
(* C17: every frame written is 0:"<payload>" followed by one newline; the  *)
(* payload holds no raw newline and each double quote in it comes right    *)
(* after a backslash, so a frame is exactly one line of the body.          *)
(***************************************************************************)
OneLineFrame(f) ==
  /\ Len(f) >= 5
  /\ SubSeq(f, 1, 3) = <<"0", ":", Quote>>
  /\ SubSeq(f, Len(f) - 1, Len(f)) = <<Quote, Newline>>
  /\ LET p == Payload(f) IN
       \A i \in DOMAIN p :
         /\ p[i] # Newline
         /\ p[i] = Quote => (i > 1 /\ p[i - 1] = Backslash)

C17_FrameIsOneLine == \A i \in DOMAIN frames : OneLineFrame(frames[i])

C17_Witness ==
  /\ pc = "done"
  /\ \E i \in DOMAIN frames :
       \E j \in DOMAIN Payload(frames[i]) : Payload(frames[i])[j] = Quote
  /\ \E i \in DOMAIN frames :
       Payload(frames[i]) \in {<<Backslash, "n">>, <<Backslash, Quote, Backslash, "n">>}

(***************************************************************************)
(* C18: for a generated text of n > 0 characters streamText writes         *)
(* ceil(n / 40) frames and nothing else; frame k (from 0) carries the      *)
(* characters [40k, min(40k + 40, n)) of the text, in increasing k.        *)
(***************************************************************************)
Slice(t, k) == SubSeq(t, chunkSize * k + 1, Min(chunkSize * k + chunkSize, Len(t)))

C18_SlicesInOrder ==
  (pc = "done" /\ text # <<>>)
    => /\ Len(frames) = (Len(text) + chunkSize - 1) \div chunkSize
       /\ \A k \in 0..(Len(frames) - 1) : frames[k + 1] = Formatted(Slice(text, k))

C18_Witness ==
  /\ pc = "done"
  /\ Len(text) = 2 * chunkSize + 1
  /\ Len(frames) = 3
  /\ frames[3] = Formatted(<<Quote>>)

(***************************************************************************)
(* C19: the apology goes through the Stream Framer like a generated text:  *)
(* its frames are the frames streamText writes for that string, and no     *)
(* frame carries more than 40 characters of text.                          *)
(***************************************************************************)
ApologySent == variant = "fallback" /\ status = 200 /\ (text = <<>> \/ fatalErr)

C19_ApologyThroughFramer ==
  /\ (pc = "done" /\ ApologySent) => frames = streamText(<<>>, Apology)
  /\ \A i \in DOMAIN frames : Len(Unescape(Payload(frames[i]))) <= chunkSize

(***************************************************************************)
(* C20: the token-stream path frames each piece as the re-chunking path    *)
(* does (same escaping, same envelope), and the headers of a streamed      *)
(* response are the same whichever path produced it, so the response does  *)
(* not tell the paths apart.                                               *)
(***************************************************************************)
SameFraming ==
  variant = "sse" => \A i \in DOMAIN frames : \E c \in Deltas : <<frames[i]>> = emit(<<>>, c)

SameHeaders ==
  status = 200 => \A v \in Variants : contentType = StreamContentType(v)

C20_PathsIndistinguishable == SameFraming /\ SameHeaders

(***************************************************************************)
(* C21: in a run of a stream's start routine the controller is closed at   *)
(* most once, and no frame is enqueued once it was closed: in the fallback *)
(* handler on the normal and on the fatal-error path, in the token-stream  *)
(* handler no data line that follows the [DONE] marker is framed.          *)
(***************************************************************************)
NothingAfterClose(log) ==
  \A i \in DOMAIN log :
    log[i] = "close" => \A j \in DOMAIN log : j > i => log[j] \notin {"close", "enqueue"}

C21_ClosedOnceNothingAfter ==
  /\ closeCount <= 1
  /\ NothingAfterClose(ctl)
  /\ Cardinality({i \in DOMAIN ctl : ctl[i] = "enqueue"}) = Len(frames)

\* the first read carries a delta, the [DONE] marker and one more data line
C21_Witness ==
  /\ variant = "sse"
  /\ reads = 1
  /\ ctl = <<"enqueue", "close">>
  /\ pc = "done"

(***************************************************************************)
(* C22: no frame has an empty payload, and a 200 response stream is never  *)
(* closed with zero frames: when no text was generated the apology frame   *)
(* is written instead.                                                     *)
(***************************************************************************)
C22_NeverEmptyStream ==
  /\ \A i \in DOMAIN frames : Payload(frames[i]) # <<>>
  /\ (status = 200 /\ controller = "closed") => frames # <<>>

(***************************************************************************)
(* C23: generation terminates.  Every provider call returning or throwing, *)
(* a request that entered Tier 1 reaches framing, having made at most one  *)
(* Tier 1 call and at most five Tier 2 calls: the three text-generation    *)
(* models, then the two text-to-text models, none of them twice.           *)
(***************************************************************************)
CallsBounded ==
  LET hfCalls == SelectSeq(calls, LAMBDA c : c.model # "groq") IN
  /\ Len(calls) - Len(hfCalls) <= 1
  /\ Len(hfCalls) <= Len(textGenModels) + Len(t5Models)
  /\ \A i, j \in DOMAIN hfCalls : hfCalls[i].model = hfCalls[j].model => i = j
  /\ \A i \in DOMAIN hfCalls : hfCalls[i].model = (textGenModels \o t5Models)[i]
  /\ inflight = {}

C23_GenerationTerminates == (pc = "tier1") ~> (pc = "framing" /\ CallsBounded)

\* framing is reached after the one Tier 1 call and the five Tier 2 calls
C23_Witness ==
  /\ pc = "framing"
  /\ Len(calls) = 6
  /\ text = <<>>
  /\ \A i \in DOMAIN calls : ~calls[i].got

====
